---- MODULE Spec2Model ----
(***************************************************************************)
(* Model of package sorter (src/src/sorter/sorter.go): the Sortable        *)
(* interface, the reflective multiKeySorter behind By(lesser).Sort, and    *)
(* the three range sorts Selection, Insertion and Shell.                   *)
(*                                                                         *)
(* One call of one entry point is one behaviour.  Init draws the call's    *)
(* arguments; every loop test and loop body of the source is one action,   *)
(* and the variables i, j, min, h are the source's locals.  calls is the   *)
(* trace of the Sortable methods the algorithm has invoked so far.         *)
(***************************************************************************)
EXTENDS Integers, Sequences, FiniteSets

VARIABLES
    entry,    \* the entry point called: "Selection", "Insertion", "Shell", "Sort"
    kind,     \* reflect.Kind of the value handed to By.Sort
    lesser,   \* the ordering behind Less (mks.lesser, or the Sortable's own)
    coll,     \* the collection: index 0..n-1 -> element
    orig,     \* the collection as it was when the call was made
    bgn,      \* argument bgn
    end,      \* argument end
    i,        \* outer loop index
    j,        \* inner loop index
    min,      \* Selection's min
    h,        \* Shell's gap
    pc,       \* position in the code
    calls,    \* the Less/Exchange calls made so far, in order
    first     \* the outcome of a first Shell call kept by the driver (Rerun)

vars == <<entry, kind, lesser, coll, orig, bgn, end, i, j, min, h, pc, calls, first>>

\* Longest collection handed to a call.
MaxLen == 6

\* Sort keys of the elements.  Two elements with the same key are equivalent
\* under either ordering, and are told apart by their id.
Keys == {0, 1, 2}

\* The keys of the collections whose calls are followed to their end under
\* fairness (LiveSpec).
LiveKeys == {0, 1}

\* The orderings a caller supplies: both are strict weak orderings.
Lessers == {"byKey", "byKeyDesc"}

\* What By.Sort may be handed: a slice, or something that is not one.
Kinds == {"slice", "array", "ptr"}

\* An element is a record; id is the position it had when the call was made.
CollsOfLen(n) ==
    {[k \in 0 .. n - 1 |-> [key |-> f[k], id |-> k]] : f \in [0 .. n - 1 -> Keys]}

Colls == UNION {CollsOfLen(n) : n \in 0 .. MaxLen}

\* multiKeySorter.Length: slice.Len()
Length(c) == Cardinality(DOMAIN c)

\* A kind test that also lets a pointer to a slice through.
IsSliceOrPtr(k) == k \in {"slice", "ptr"}

\* The kind test every multiKeySorter method starts with.
IsSlice(k) == k = "slice"

\* A lesser function (type By): true when o1 sorts before o2.
Lesser(f, o1, o2) ==
    IF f = "byKey" THEN o1.key < o2.key ELSE o1.key > o2.key

\* Sortable.Less(a, b) on collection c.
Less(c, a, b) == Lesser(lesser, c[a], c[b])

\* An exchange whose temp aliases position a instead of copying it: position
\* b is then set to the value position a has just been given.
ExchangeAliased(c, a, b) == [c EXCEPT ![a] = c[b]]

\* Sortable.Exchange(a, b) on collection c: the collection afterwards.
Exchange(c, a, b) == [c EXCEPT ![a] = c[b], ![b] = c[a]]

\* Entries of the call trace.
LessCall(c, a, b) == [op |-> "Less", a |-> a, b |-> b, res |-> Less(c, a, b)]
ExchangeCall(a, b) == [op |-> "Exchange", a |-> a, b |-> b, res |-> TRUE]

----------------------------------------------------------------------------
\* Loop conditions.  Each evaluates as Go does, left to right with a
\* short-circuit &&: ok is the condition's value, calls the Less call it made.

\* A scan that starts at i itself.
SelectionFirstSame(ii) == ii

\* Selection's inner loop start: j := i + 1
SelectionFirst(ii) == ii + 1

\* Selection's inner condition: j < end && coll.Less(j, min)
SelectionCond(c, jj, mm, e) ==
    IF jj < e
    THEN [ok |-> Less(c, jj, mm), calls |-> <<LessCall(c, jj, mm)>>]
    ELSE [ok |-> FALSE, calls |-> <<>>]

\* An inner condition that stops at 0 instead of bgn.
InsertionCondFromZero(c, jj, b) ==
    IF jj > 0
    THEN [ok |-> Less(c, jj, jj - 1), calls |-> <<LessCall(c, jj, jj - 1)>>]
    ELSE [ok |-> FALSE, calls |-> <<>>]

\* An inner condition that sifts while the predecessor is not less.
InsertionCondNotGreater(c, jj, b) ==
    IF jj > b
    THEN [ok |-> ~Less(c, jj - 1, jj), calls |-> <<LessCall(c, jj - 1, jj)>>]
    ELSE [ok |-> FALSE, calls |-> <<>>]

\* Insertion's inner condition: j > bgn && coll.Less(j, j-1)
InsertionCond(c, jj, b) ==
    IF jj > b
    THEN [ok |-> Less(c, jj, jj - 1), calls |-> <<LessCall(c, jj, jj - 1)>>]
    ELSE [ok |-> FALSE, calls |-> <<>>]

\* Shell's inner condition: j >= h && coll.Less(j, j - h)
ShellCond(c, jj, hh) ==
    IF jj >= hh
    THEN [ok |-> Less(c, jj, jj - hh), calls |-> <<LessCall(c, jj, jj - hh)>>]
    ELSE [ok |-> FALSE, calls |-> <<>>]

\* Shell's increment loop condition: h < (end - bgn) / 3
GapCond(hh, b, e) == hh < (e - b) \div 3

\* Shell's increment step: h = 3 * h + 1
GapGrow(hh) == 3 * hh + 1

\* A decrement that rounds up.
GapShrinkRoundUp(hh) == (hh + 2) \div 3

\* Shell's decrement step: h = h / 3
GapShrink(hh) == hh \div 3

\* An outer bound that is end itself.
ShellBoundEnd(b, e) == e

\* Shell's outer index bound: i < (end - bgn)
ShellBound(b, e) == e - b

----------------------------------------------------------------------------
\* A call: the entry point and its arguments.  The range is a valid one,
\* 0 <= bgn <= end <= Length().  By.Sort takes no range.
Init ==
    /\ entry \in {"Selection", "Insertion", "Shell", "Sort"}
    /\ lesser \in Lessers
    /\ coll \in Colls
    /\ orig = coll
    /\ IF entry = "Sort"
       THEN kind \in Kinds /\ bgn = 0 /\ end = 0
       ELSE /\ kind = "slice"
            /\ bgn \in 0 .. Length(coll)
            /\ end \in bgn .. Length(coll)
    /\ i = 0 /\ j = 0 /\ min = 0 /\ h = 0
    /\ pc = "call"
    /\ calls = <<>>
    /\ first = <<>>

----------------------------------------------------------------------------
\* Selection(coll, bgn, end)

\* for i := bgn
SelectionCall ==
    /\ pc = "call" /\ entry = "Selection"
    /\ i' = bgn
    /\ pc' = "sel_outer"
    /\ UNCHANGED <<entry, kind, lesser, coll, orig, bgn, end, j, min, h, calls, first>>

\* i < end: min := i; for j := i + 1
SelectionOuter ==
    /\ pc = "sel_outer" /\ i < end
    /\ min' = i
    /\ j' = SelectionFirst(i)
    /\ pc' = "sel_scan"
    /\ UNCHANGED <<entry, kind, lesser, coll, orig, bgn, end, i, h, calls, first>>

\* the inner condition holds: min = j; j++
SelectionScan ==
    /\ pc = "sel_scan"
    /\ SelectionCond(coll, j, min, end).ok
    /\ calls' = calls \o SelectionCond(coll, j, min, end).calls
    /\ min' = j
    /\ j' = j + 1
    /\ UNCHANGED <<entry, kind, lesser, coll, orig, bgn, end, i, h, pc, first>>

\* the inner condition fails: the scan is over
SelectionScanEnd ==
    /\ pc = "sel_scan"
    /\ ~SelectionCond(coll, j, min, end).ok
    /\ calls' = calls \o SelectionCond(coll, j, min, end).calls
    /\ pc' = "sel_exch"
    /\ UNCHANGED <<entry, kind, lesser, coll, orig, bgn, end, i, j, min, h, first>>

\* coll.Exchange(i, min); i++
SelectionExchange ==
    /\ pc = "sel_exch"
    /\ coll' = Exchange(coll, i, min)
    /\ calls' = Append(calls, ExchangeCall(i, min))
    /\ i' = i + 1
    /\ pc' = "sel_outer"
    /\ UNCHANGED <<entry, kind, lesser, orig, bgn, end, j, min, h, first>>

\* i >= end: return
SelectionReturn ==
    /\ pc = "sel_outer" /\ ~(i < end)
    /\ pc' = "done"
    /\ UNCHANGED <<entry, kind, lesser, coll, orig, bgn, end, i, j, min, h, calls, first>>

SelectionNext ==
    \/ SelectionCall
    \/ SelectionOuter
    \/ SelectionScan
    \/ SelectionScanEnd
    \/ SelectionExchange
    \/ SelectionReturn

----------------------------------------------------------------------------
\* Insertion(coll, bgn, end)

\* for i := bgn
InsertionCall ==
    /\ pc = "call" /\ entry = "Insertion"
    /\ i' = bgn
    /\ pc' = "ins_outer"
    /\ UNCHANGED <<entry, kind, lesser, coll, orig, bgn, end, j, min, h, calls, first>>

\* i < end: for j := i
InsertionOuter ==
    /\ pc = "ins_outer" /\ i < end
    /\ j' = i
    /\ pc' = "ins_inner"
    /\ UNCHANGED <<entry, kind, lesser, coll, orig, bgn, end, i, min, h, calls, first>>

\* the inner condition holds: coll.Exchange(j, j - 1); j--
InsertionSift ==
    /\ pc = "ins_inner"
    /\ InsertionCond(coll, j, bgn).ok
    /\ coll' = Exchange(coll, j, j - 1)
    /\ calls' = calls \o InsertionCond(coll, j, bgn).calls
                      \o <<ExchangeCall(j, j - 1)>>
    /\ j' = j - 1
    /\ UNCHANGED <<entry, kind, lesser, orig, bgn, end, i, min, h, pc, first>>

\* the inner condition fails: i++
InsertionSiftEnd ==
    /\ pc = "ins_inner"
    /\ ~InsertionCond(coll, j, bgn).ok
    /\ calls' = calls \o InsertionCond(coll, j, bgn).calls
    /\ i' = i + 1
    /\ pc' = "ins_outer"
    /\ UNCHANGED <<entry, kind, lesser, coll, orig, bgn, end, j, min, h, first>>

\* i >= end: return
InsertionReturn ==
    /\ pc = "ins_outer" /\ ~(i < end)
    /\ pc' = "done"
    /\ UNCHANGED <<entry, kind, lesser, coll, orig, bgn, end, i, j, min, h, calls, first>>

InsertionNext ==
    \/ InsertionCall
    \/ InsertionOuter
    \/ InsertionSift
    \/ InsertionSiftEnd
    \/ InsertionReturn

----------------------------------------------------------------------------
\* Shell(coll, bgn, end), called directly or from By.Sort

\* h := 1
ShellCall ==
    /\ pc \in {"call", "shell"}
    /\ pc = "call" => entry = "Shell"
    /\ h' = 1
    /\ pc' = "shell_gap"
    /\ UNCHANGED <<entry, kind, lesser, coll, orig, bgn, end, i, j, min, calls, first>>

\* h < (end - bgn) / 3: h = 3 * h + 1
ShellGapGrow ==
    /\ pc = "shell_gap"
    /\ GapCond(h, bgn, end)
    /\ h' = GapGrow(h)
    /\ UNCHANGED <<entry, kind, lesser, coll, orig, bgn, end, i, j, min, pc, calls, first>>

\* the increment loop is over
ShellGapEnd ==
    /\ pc = "shell_gap"
    /\ ~GapCond(h, bgn, end)
    /\ pc' = "shell_pass"
    /\ UNCHANGED <<entry, kind, lesser, coll, orig, bgn, end, i, j, min, h, calls, first>>

\* h >= 1: for i := h
ShellPass ==
    /\ pc = "shell_pass" /\ h >= 1
    /\ i' = h
    /\ pc' = "shell_outer"
    /\ UNCHANGED <<entry, kind, lesser, coll, orig, bgn, end, j, min, h, calls, first>>

\* i < (end - bgn): for j := i
ShellOuter ==
    /\ pc = "shell_outer" /\ i < ShellBound(bgn, end)
    /\ j' = i
    /\ pc' = "shell_inner"
    /\ UNCHANGED <<entry, kind, lesser, coll, orig, bgn, end, i, min, h, calls, first>>

\* the inner condition holds: coll.Exchange(j, j - h); j -= h
ShellSift ==
    /\ pc = "shell_inner"
    /\ ShellCond(coll, j, h).ok
    /\ coll' = Exchange(coll, j, j - h)
    /\ calls' = calls \o ShellCond(coll, j, h).calls \o <<ExchangeCall(j, j - h)>>
    /\ j' = j - h
    /\ UNCHANGED <<entry, kind, lesser, orig, bgn, end, i, min, h, pc, first>>

\* the inner condition fails: i++
ShellSiftEnd ==
    /\ pc = "shell_inner"
    /\ ~ShellCond(coll, j, h).ok
    /\ calls' = calls \o ShellCond(coll, j, h).calls
    /\ i' = i + 1
    /\ pc' = "shell_outer"
    /\ UNCHANGED <<entry, kind, lesser, coll, orig, bgn, end, j, min, h, first>>

\* i >= (end - bgn): the pass is over; h = h / 3
ShellShrink ==
    /\ pc = "shell_outer" /\ ~(i < ShellBound(bgn, end))
    /\ h' = GapShrink(h)
    /\ pc' = "shell_pass"
    /\ UNCHANGED <<entry, kind, lesser, coll, orig, bgn, end, i, j, min, calls, first>>

\* h < 1: return
ShellReturn ==
    /\ pc = "shell_pass" /\ ~(h >= 1)
    /\ pc' = "done"
    /\ UNCHANGED <<entry, kind, lesser, coll, orig, bgn, end, i, j, min, h, calls, first>>

ShellNext ==
    \/ ShellCall
    \/ ShellGapGrow
    \/ ShellGapEnd
    \/ ShellPass
    \/ ShellOuter
    \/ ShellSift
    \/ ShellSiftEnd
    \/ ShellShrink
    \/ ShellReturn

----------------------------------------------------------------------------
\* By(lesser).Sort(coll)
\*
\* Go evaluates Shell's arguments before it calls Shell, so mks.Length() runs
\* first.  multiKeySorter.Less and multiKeySorter.Exchange make the same kind
\* test and panic the same way, but Shell is only entered once Length() has
\* found a slice, and the kind of coll does not change during the call.

\* mks.Length() finds a slice: Shell(mks, 0, mks.Length())
SortLength ==
    /\ pc = "call" /\ entry = "Sort"
    /\ IsSlice(kind)
    /\ bgn' = 0
    /\ end' = Length(coll)
    /\ pc' = "shell"
    /\ UNCHANGED <<entry, kind, lesser, coll, orig, i, j, min, h, calls, first>>

\* mks.Length() finds no slice: panic("passing a non-slice type")
SortPanic ==
    /\ pc = "call" /\ entry = "Sort"
    /\ ~IsSlice(kind)
    /\ pc' = "panic"
    /\ UNCHANGED <<entry, kind, lesser, coll, orig, bgn, end, i, j, min, h, calls, first>>

SortNext ==
    \/ SortLength
    \/ SortPanic

----------------------------------------------------------------------------
Next ==
    \/ SelectionNext
    \/ InsertionNext
    \/ ShellNext
    \/ SortNext

Spec == Init /\ [][Next]_vars

\* The program is sequential and never blocks: whenever a statement is left
\* to execute, it is executed.
InitRangeSort ==
    /\ Init
    /\ entry # "Sort"
    /\ \A k \in DOMAIN coll : coll[k].key \in LiveKeys

NextRangeSort ==
    \/ SelectionNext
    \/ InsertionNext
    \/ ShellNext

LiveSpec == InitRangeSort /\ [][NextRangeSort]_vars /\ WF_vars(NextRangeSort)

----------------------------------------------------------------------------
\* A driver that calls Shell(coll, bgn, end), keeps the outcome, and calls
\* Shell(coll, 0, end - bgn) on a collection with the same contents.

Rerun ==
    /\ pc = "done" /\ entry = "Shell"
    /\ first = <<>>
    /\ first' = <<[coll |-> coll, calls |-> calls, bgn |-> bgn, end |-> end]>>
    /\ coll' = orig
    /\ bgn' = 0
    /\ end' = end - bgn
    /\ calls' = <<>>
    /\ pc' = "shell"
    /\ UNCHANGED <<entry, kind, lesser, orig, i, j, min, h>>

InitShell == Init /\ entry = "Shell"

NextPair ==
    \/ ShellNext
    \/ Rerun

PairSpec == InitShell /\ [][NextPair]_vars

----------------------------------------------------------------------------
\* Vocabulary of the properties.

RangeSorts == {"Selection", "Insertion", "Shell"}

\* c[lo..hi) is non-decreasing: no k with Less(k+1, k).
Sorted(c, lo, hi) == \A k \in lo .. hi - 2 : ~Less(c, k + 1, k)

\* How often e occurs in c[lo..hi).
Count(c, lo, hi, e) == Cardinality({k \in lo .. hi - 1 : c[k] = e})

\* c1[lo..hi) and c2[lo..hi) hold the same multiset of elements.
SameMultiset(c1, c2, lo, hi) ==
    \A k \in lo .. hi - 1 :
        /\ Count(c1, lo, hi, c1[k]) = Count(c2, lo, hi, c1[k])
        /\ Count(c1, lo, hi, c2[k]) = Count(c2, lo, hi, c2[k])

\* Neither element sorts before the other.
Equivalent(o1, o2) == ~Lesser(lesser, o1, o2) /\ ~Lesser(lesser, o2, o1)

\* Every index the trace t passed to Less or Exchange lies in lo..hi-1.
CallsWithin(t, lo, hi) ==
    \A k \in 1 .. Len(t) : t[k].a \in lo .. hi - 1 /\ t[k].b \in lo .. hi - 1

\* The trace holds an exchange of two positions d apart.
ExchangedAtGap(t, d) ==
    \E k \in 1 .. Len(t) : t[k].op = "Exchange" /\ t[k].a - t[k].b = d

----------------------------------------------------------------------------
\* C1. Sortedness: when Selection, Insertion or Shell has returned from a
\* call on a valid range, coll[bgn..end) is non-decreasing: there is no k with
\* bgn <= k, k+1 < end and Less(k+1, k).
Sortedness ==
    (entry \in RangeSorts /\ pc = "done") => Sorted(coll, bgn, end)

\* C2. Permutation preservation: when Selection, Insertion or Shell has
\* returned, the multiset of the elements at positions bgn..end-1 is the
\* multiset that was at those positions when the call was made.
PermutationPreserved ==
    (entry \in RangeSorts /\ pc = "done") => SameMultiset(coll, orig, bgn, end)

\* C3. Comparator adapter: when By(lesser).Sort(s) has returned, s is a
\* permutation of its original contents and no k < len(s)-1 has
\* lesser(s[k+1], s[k]): the whole slice is sorted in place under lesser.
SortSortsSlice ==
    (entry = "Sort" /\ pc = "done") =>
        /\ DOMAIN coll = DOMAIN orig
        /\ SameMultiset(coll, orig, 0, Length(orig))
        /\ \A k \in 0 .. Length(coll) - 2 : ~Lesser(lesser, coll[k + 1], coll[k])

\* By.Sort has returned from a slice long enough for Shell to start at gap 4,
\* and elements were exchanged at gap 4 and at gap 1.
SortSortsSliceWitness ==
    /\ entry = "Sort" /\ pc = "done"
    /\ Length(coll) >= 6
    /\ ExchangedAtGap(calls, 4)
    /\ ExchangedAtGap(calls, 1)

\* C4. Fail-fast on a non-slice: By(lesser).Sort(x) with x not a slice goes
\* from the call straight to the panic, before Shell starts (at the call the
\* panic is the one step it can take): it never returns, lesser is never
\* invoked, no exchange is performed and x is unchanged.
SortFailsFast ==
    (entry = "Sort" /\ kind # "slice") =>
        /\ pc \in {"call", "panic"}
        /\ pc = "call" => (ENABLED SortPanic /\ ~ENABLED SortLength)
        /\ calls = <<>>
        /\ coll = orig
        /\ h = 0

\* By.Sort has panicked on a pointer to an unsorted slice.
SortFailsFastWitness ==
    /\ entry = "Sort" /\ kind = "ptr" /\ pc = "panic"
    /\ Length(coll) >= 2
    /\ Lesser(lesser, coll[1], coll[0])

\* C5. Sub-range frame: Insertion and Selection pass only indices in
\* bgn..end-1 to Less and Exchange, so every position outside bgn..end-1 holds
\* the element it held when the call was made.
SubRangeFrame ==
    entry \in {"Selection", "Insertion"} =>
        /\ CallsWithin(calls, bgn, end)
        /\ \A p \in DOMAIN coll : p \notin bgn .. end - 1 => coll[p] = orig[p]

\* Insertion has returned from a range with bgn > 0 and end < Length() whose
\* first element sorted before its left neighbour outside the range, and
\* Selection can be in the same place.
SubRangeFrameWitness ==
    /\ entry = "Insertion" /\ pc = "done"
    /\ bgn > 0 /\ end < Length(coll)
    /\ coll # orig
    /\ Lesser(lesser, orig[bgn], orig[bgn - 1])

\* C6. Insertion is stable: an Exchange(j, j-1) is only performed right after
\* Less(j, j-1) returned true, and when Insertion has returned, two equivalent
\* elements of the range are in the relative order they had before.
InsertionStable ==
    entry = "Insertion" =>
        /\ \A k \in 1 .. Len(calls) :
               calls[k].op = "Exchange" =>
                   /\ k > 1
                   /\ calls[k - 1] = [op |-> "Less", a |-> calls[k].a,
                                      b |-> calls[k].b, res |-> TRUE]
                   /\ calls[k].b = calls[k].a - 1
        /\ pc = "done" =>
               \A a, b \in bgn .. end - 1 :
                   (a < b /\ Equivalent(orig[a], orig[b])) =>
                       \A p, q \in DOMAIN coll :
                           (coll[p] = orig[a] /\ coll[q] = orig[b]) => p < q

\* Insertion has returned after moving an element to the left of two
\* equivalent elements.
InsertionStableWitness ==
    /\ entry = "Insertion" /\ pc = "done"
    /\ \E a, b, c \in bgn .. end - 1 :
           /\ a < b /\ b < c
           /\ Equivalent(orig[a], orig[b])
           /\ Lesser(lesser, orig[c], orig[a])
           /\ coll[a] = orig[c]

\* C7 as stated. No-op on trivial ranges: a call of Selection, Insertion or
\* Shell with bgn = end or end = bgn + 1 makes no call of Less, no call of
\* Exchange, and leaves the collection unchanged.
TrivialRangeNoCalls ==
    (entry \in RangeSorts /\ end <= bgn + 1) =>
        /\ calls = <<>>
        /\ coll = orig

\* C7 as amended. On a range with bgn = end or end = bgn + 1 no algorithm calls
\* Less and the collection is unchanged; Insertion and Shell call Exchange
\* never, Selection never on an empty range and exactly once, as
\* Exchange(bgn, bgn), on a range of one element.
TrivialRangeNoOp ==
    (entry \in RangeSorts /\ end <= bgn + 1) =>
        /\ coll = orig
        /\ \A k \in 1 .. Len(calls) : calls[k].op # "Less"
        /\ (entry # "Selection" \/ end = bgn) => calls = <<>>
        /\ (entry = "Selection" /\ end = bgn + 1) =>
               /\ calls \in {<<>>, <<ExchangeCall(bgn, bgn)>>}
               /\ pc = "done" => calls = <<ExchangeCall(bgn, bgn)>>

\* Selection has returned from a range of one element, inside a longer
\* collection, having exchanged the element with itself.
TrivialRangeNoOpWitness ==
    /\ entry = "Selection" /\ pc = "done"
    /\ end = bgn + 1 /\ bgn > 0 /\ end < Length(coll)
    /\ calls = <<ExchangeCall(bgn, bgn)>>

\* C8. Termination: every call of Selection, Insertion or Shell on a valid
\* range returns; in Shell the gap strictly decreases from one pass to the
\* next, a pass runs only with h >= 1, and Shell returns with h = 0.
Termination ==
    /\ (pc = "call" /\ entry \in RangeSorts) ~> (pc = "done")
    /\ [][(pc = "shell_outer" /\ pc' = "shell_pass") => (h' < h /\ h' >= 0)]_vars
    /\ [](pc \in {"shell_outer", "shell_inner"} => h >= 1)
    /\ []((entry = "Shell" /\ pc = "done") => h = 0)

\* Shell has returned after a pass at gap 4 and a pass at gap 1.
TerminationWitness ==
    /\ entry = "Shell" /\ pc = "done" /\ h = 0
    /\ end - bgn >= 6
    /\ ExchangedAtGap(calls, 4)
    /\ ExchangedAtGap(calls, 1)

\* C9. Selection's scan finds the minimum: when Exchange(i, min) is about to
\* be called, no position k of i..end-1 has Less(k, min).
SelectionFindsMin ==
    (entry = "Selection" /\ pc = "sel_exch") =>
        \A k \in i .. end - 1 : ~Less(coll, k, min)

====
